---------------------------- MODULE Spec2Model ----------------------------
(***************************************************************************)
(* A model of the node graph panel's layout (useLayout, defaultLayout,     *)
(* gridLayout, centerNodes, graphBounds), of the NodeGraph component's     *)
(* view state, and of the dashboard ChangeTracker exercised by             *)
(* ChangeTracker.test.ts.                                                  *)
(*                                                                         *)
(* Numbers.  A JavaScript number v is held as the integer 2 * v (half      *)
(* units), so that the midpoint of two integer coordinates, which double   *)
(* arithmetic computes exactly, is again an integer of the model.  All     *)
(* coordinates that enter the model are integers of small magnitude; on    *)
(* those every addition, subtraction and halving of layout.ts is exact in  *)
(* IEEE doubles, and the model computes the same values.                   *)
(*                                                                         *)
(* Optional values.  A property that may be undefined (x, y, fx, a hover   *)
(* id, config.sort) is the empty sequence when undefined and a one element *)
(* sequence when set.                                                      *)
(*                                                                         *)
(* Objects.  Node and edge objects live in a store under an address, and   *)
(* arrays are sequences of addresses held under an array reference, so     *)
(* that a function that modifies its argument in place modifies whatever   *)
(* else holds the same object or the same array.                           *)
(***************************************************************************)
EXTENDS Integers, Sequences, FiniteSets, TLC

(***************************************************************************)
(* Bounds of the model.                                                    *)
(***************************************************************************)
MaxNodes == 3
MaxPoints == 3
MaxCoord == 2
MaxGrid == 5
MaxVal == 2
MaxLimit == 1

(***************************************************************************)
(* Constants of layout.ts.                                                 *)
(***************************************************************************)
spacingVertical == 140
spacingHorizontal == 120
perRow == 4
rootYSpacing == 300
nodeYSpacing == 200
nodeXSpacing == 200

Num(v) == 2 * v
Half(v) == v \div 2

Undefined == << >>
Def(v) == << v >>
IsDef(o) == o # << >>
Val(o) == o[1]

(***************************************************************************)
(* graphBounds.  The reduce starts from (+Infinity, -Infinity), so for a   *)
(* non-empty list the first node always replaces all four accumulators;    *)
(* the fold below starts from the first node for that reason.              *)
(***************************************************************************)
RECURSIVE boundsReduce(_, _, _)
boundsReduce(nodes, k, acc) ==
  IF k > Len(nodes) THEN acc
  ELSE LET node == nodes[k]
           r == IF Val(node.x) > acc.right THEN Val(node.x) ELSE acc.right
           l == IF Val(node.x) < acc.left THEN Val(node.x) ELSE acc.left
           b == IF Val(node.y) > acc.bottom THEN Val(node.y) ELSE acc.bottom
           t == IF Val(node.y) < acc.top THEN Val(node.y) ELSE acc.top
       IN boundsReduce(nodes, k + 1, [top |-> t, right |-> r, bottom |-> b, left |-> l])

boundsCenterOffByExtent(nodes) ==
  IF Len(nodes) = 0
  THEN [top |-> 0, right |-> 0, bottom |-> 0, left |-> 0, center |-> [x |-> 0, y |-> 0]]
  ELSE LET first == nodes[1]
           bounds == boundsReduce(nodes, 2,
                       [top |-> Val(first.y), right |-> Val(first.x),
                        bottom |-> Val(first.y), left |-> Val(first.x)])
       IN [top |-> bounds.top, right |-> bounds.right,
           bottom |-> bounds.bottom, left |-> bounds.left,
           center |-> [x |-> Half(bounds.right - bounds.left),
                       y |-> Half(bounds.bottom - bounds.top)]]

graphBounds(nodes) ==
  IF Len(nodes) = 0
  THEN [top |-> 0, right |-> 0, bottom |-> 0, left |-> 0, center |-> [x |-> 0, y |-> 0]]
  ELSE LET first == nodes[1]
           bounds == boundsReduce(nodes, 2,
                       [top |-> Val(first.y), right |-> Val(first.x),
                        bottom |-> Val(first.y), left |-> Val(first.x)])
           y == bounds.top + Half(bounds.bottom - bounds.top)
           x == bounds.left + Half(bounds.right - bounds.left)
       IN [top |-> bounds.top, right |-> bounds.right,
           bottom |-> bounds.bottom, left |-> bounds.left,
           center |-> [x |-> x, y |-> y]]

(***************************************************************************)
(* centerNodes: subtracts the centre of the bounds from every node.        *)
(***************************************************************************)
centerNodesXOnly(nodes) ==
  LET bounds == graphBounds(nodes)
  IN [k \in 1..Len(nodes) |->
        [nodes[k] EXCEPT !.x = Def(Val(nodes[k].x) - bounds.center.x)]]

centerNodes(nodes) ==
  LET bounds == graphBounds(nodes)
  IN [k \in 1..Len(nodes) |->
        [nodes[k] EXCEPT !.x = Def(Val(nodes[k].x) - bounds.center.x),
                         !.y = Def(Val(nodes[k].y) - bounds.center.y)]]

(***************************************************************************)
(* gridLayout.  sort.field.values.get(i) reads a zero based vector and is  *)
(* undefined past its end (a sort over a field of an earlier frame).       *)
(* Array.prototype.sort is stable and orders a before b when the compare   *)
(* function returns a negative number; it is modelled as a stable          *)
(* insertion sort driven by the sign of the compare function.              *)
(***************************************************************************)
fieldValue(sort, node) ==
  LET values == Val(sort).field.values
  IN IF node.dataFrameRowIndex + 1 \in DOMAIN values
     THEN Def(values[node.dataFrameRowIndex + 1])
     ELSE Undefined

\* A value that is undefined makes the difference NaN, which sort takes as 0.
sortCompare(sort, node1, node2) ==
  LET val1 == fieldValue(sort, node1)
      val2 == fieldValue(sort, node2)
  IN IF ~IsDef(val1) \/ ~IsDef(val2) THEN 0
     ELSE IF Val(sort).ascending THEN Val(val2) - Val(val1) ELSE Val(val1) - Val(val2)

RECURSIVE insertSorted(_, _, _, _)
insertSorted(sort, sorted, node, k) ==
  IF k > Len(sorted) THEN Append(sorted, node)
  ELSE IF sortCompare(sort, sorted[k], node) > 0
       THEN SubSeq(sorted, 1, k - 1) \o << node >> \o SubSeq(sorted, k, Len(sorted))
       ELSE insertSorted(sort, sorted, node, k + 1)

RECURSIVE arraySort(_, _, _, _)
arraySort(sort, nodes, k, sorted) ==
  IF k > Len(nodes) THEN sorted
  ELSE arraySort(sort, nodes, k + 1, insertSorted(sort, sorted, nodes[k], 1))

gridPlaceSingleRow(nodes) ==
  [k \in 1..Len(nodes) |->
     [nodes[k] EXCEPT !.x = Def(Num(-180 + (k - 1) * spacingHorizontal)),
                     !.y = Def(Num(-60))]]

gridPlace(nodes) ==
  [k \in 1..Len(nodes) |->
     LET index == k - 1
         row == index \div perRow
         column == index % perRow
     IN [nodes[k] EXCEPT !.x = Def(Num(-180 + column * spacingHorizontal)),
                         !.y = Def(Num(-60 + row * spacingVertical))]]

gridLayout(nodes, sort) ==
  gridPlace(IF IsDef(sort) THEN arraySort(sort, nodes, 1, << >>) ELSE nodes)

(***************************************************************************)
(* initializePositions.  Nodes are found through nodesMap by id; edgesMap  *)
(* lists, per source id, the edges in their order in the edge list.        *)
(***************************************************************************)
nodeIndex(nodes, id) == CHOOSE k \in 1..Len(nodes) : nodes[k].id = id

RECURSIVE edgeTargets(_, _, _)
edgeTargets(edges, sourceId, k) ==
  IF k > Len(edges) THEN << >>
  ELSE IF edges[k].source = << "id", sourceId >>
       THEN << edges[k].target[2] >> \o edgeTargets(edges, sourceId, k + 1)
       ELSE edgeTargets(edges, sourceId, k + 1)

RECURSIVE filterRoots(_, _)
filterRoots(nodes, k) ==
  IF k > Len(nodes) THEN << >>
  ELSE IF nodes[k].incoming = 0
       THEN << nodes[k].id >> \o filterRoots(nodes, k + 1)
       ELSE filterRoots(nodes, k + 1)

RECURSIVE flatTargets(_, _, _)
flatTargets(edges, roots, k) ==
  IF k > Len(roots) THEN << >>
  ELSE edgeTargets(edges, roots[k], 1) \o flatTargets(edges, roots, k + 1)

\* One pass of "for (const node of graphLevel)": st holds the nodes, the
\* ids already positioned, the next level and the running y.
RECURSIVE positionLevel(_, _, _, _, _)
positionLevel(st, edges, graphLevel, k, x) ==
  IF k > Len(graphLevel) THEN st
  ELSE LET id == graphLevel[k]
       IN IF id \in st.alreadyPositioned
          THEN positionLevel(st, edges, graphLevel, k + 1, x)
          ELSE LET i == nodeIndex(st.nodes, id)
                   next == [nodes |-> [st.nodes EXCEPT ![i].x = Def(x), ![i].y = Def(st.y)],
                            alreadyPositioned |-> st.alreadyPositioned \cup {id},
                            nextGraphLevel |-> st.nextGraphLevel \o edgeTargets(edges, id, 1),
                            y |-> st.y + Num(nodeYSpacing)]
               IN positionLevel(next, edges, graphLevel, k + 1, x)

\* The "while (graphLevel.length > 0)" loop of one root.
RECURSIVE positionLevels(_, _, _, _, _)
positionLevels(st, edges, graphLevel, x, rootY) ==
  IF Len(graphLevel) = 0 THEN st
  ELSE LET done == positionLevel([st EXCEPT !.nextGraphLevel = << >>, !.y = rootY],
                                 edges, graphLevel, 1, x)
       IN positionLevels(done, edges, done.nextGraphLevel, x + Num(nodeXSpacing), rootY)

RECURSIVE positionRoots(_, _, _, _, _)
positionRoots(st, edges, roots, k, rootY) ==
  IF k > Len(roots) THEN st
  ELSE positionRoots(positionLevels(st, edges, << roots[k] >>, Num(0), rootY),
                     edges, roots, k + 1, rootY + Num(rootYSpacing))

initializePositions(nodes, edges) ==
  LET found == filterRoots(nodes, 1)
      roots == IF Len(found) = 0 THEN << nodes[1].id >> ELSE found
      secondLevelRoots == flatTargets(edges, roots, 1)
      st == positionRoots([nodes |-> nodes, alreadyPositioned |-> {},
                           nextGraphLevel |-> << >>, y |-> Num(0)],
                          edges, roots, 1, Num(0))
  IN [nodes |-> st.nodes, roots |-> roots, secondLevelRoots |-> secondLevelRoots]

(***************************************************************************)
(* defaultLayout.  The d3-force simulation is a library: what it leaves in *)
(* the nodes is any position (sim[k]), except that a node with fx set      *)
(* keeps x = fx.  forceLink replaces each edge's source and target id by   *)
(* the node object with that id.                                           *)
(***************************************************************************)
fixRoots(init) ==
  LET fixed == {init.roots[k] : k \in 1..Len(init.roots)}
                 \cup {init.secondLevelRoots[k] : k \in 1..Len(init.secondLevelRoots)}
  IN [k \in 1..Len(init.nodes) |->
        IF init.nodes[k].id \in fixed
        THEN [init.nodes[k] EXCEPT !.fx = init.nodes[k].x]
        ELSE init.nodes[k]]

forceSimulation(nodes, sim) ==
  [k \in 1..Len(nodes) |->
     [nodes[k] EXCEPT !.x = IF IsDef(nodes[k].fx) THEN nodes[k].fx ELSE Def(sim[k].x),
                      !.y = Def(sim[k].y)]]

forceLink(nodes, edges) ==
  [k \in 1..Len(edges) |->
     [edges[k] EXCEPT !.source = << "node", nodes[nodeIndex(nodes, edges[k].source[2])].addr >>,
                      !.target = << "node", nodes[nodeIndex(nodes, edges[k].target[2])].addr >>]]

defaultLayout(nodes, edges, sim) ==
  LET init == initializePositions(nodes, edges)
  IN [nodes |-> centerNodes(forceSimulation(fixRoots(init), sim)),
      edges |-> forceLink(nodes, edges)]

(***************************************************************************)
(* The object store.  heap.nodeArr and heap.edgeArr map an array reference *)
(* to the addresses it holds, in order; heap.nodeObj and heap.edgeObj map  *)
(* an address to the object.  An address is << region, k >>: the k-th      *)
(* object allocated by region's allocation site ("raw": processNodes,      *)
(* "graph": the copies of layout.ts:58-59, "grid": those of 66-67).  A     *)
(* site's earlier objects are unreachable once its state is replaced, so   *)
(* their addresses are used again.                                         *)
(***************************************************************************)
VARIABLES mounted, nodeCountLimit, config, nodeHover, edgeHover, focusedNodeId,
          heap, nodesGraph, edgesGraph, nodesGrid, edgesGrid, effectRan, layoutRan,
          fn, fnArgs, fnOut

viewVars == << mounted, nodeCountLimit, config, nodeHover, edgeHover, focusedNodeId,
               heap, nodesGraph, edgesGraph, nodesGrid, edgesGrid, effectRan, layoutRan >>

derefNodes(h, ref) == [k \in 1..Len(h.nodeArr[ref]) |-> h.nodeObj[h.nodeArr[ref][k]]]
derefEdges(h, ref) == [k \in 1..Len(h.edgeArr[ref]) |-> h.edgeObj[h.edgeArr[ref][k]]]

\* A function that modified the array `ref` in place left `nodes` in it.
storeNodes(h, ref, nodes) ==
  LET written == {nodes[k].addr : k \in 1..Len(nodes)}
  IN [h EXCEPT !.nodeArr[ref] = [k \in 1..Len(nodes) |-> nodes[k].addr],
               !.nodeObj = [a \in DOMAIN h.nodeObj |->
                              IF a \in written
                              THEN nodes[CHOOSE k \in 1..Len(nodes) : nodes[k].addr = a]
                              ELSE h.nodeObj[a]]]

storeEdges(h, ref, edges) ==
  LET written == {edges[k].addr : k \in 1..Len(edges)}
  IN [h EXCEPT !.edgeArr[ref] = [k \in 1..Len(edges) |-> edges[k].addr],
               !.edgeObj = [a \in DOMAIN h.edgeObj |->
                              IF a \in written
                              THEN edges[CHOOSE k \in 1..Len(edges) : edges[k].addr = a]
                              ELSE h.edgeObj[a]]]

\* rawNodes.map((n) => ({ ...n })): a new array of new objects.
copyNodesAlias(h, src, dst) == [heap |-> h, ref |-> src]

copyNodes(h, src, dst) ==
  LET from == h.nodeArr[src]
      kept == {a \in DOMAIN h.nodeObj : a[1] # dst}
      made == {<< dst, k >> : k \in 1..Len(from)}
  IN [heap |-> [h EXCEPT !.nodeArr[dst] = [k \in 1..Len(from) |-> << dst, k >>],
                         !.nodeObj = [a \in kept \cup made |->
                                        IF a \in made
                                        THEN [h.nodeObj[from[a[2]]] EXCEPT !.addr = a]
                                        ELSE h.nodeObj[a]]],
      ref |-> dst]

\* rawEdges.map((e) => ({ ...e })).
copyEdges(h, src, dst) ==
  LET from == h.edgeArr[src]
      kept == {a \in DOMAIN h.edgeObj : a[1] # dst}
      made == {<< dst, k >> : k \in 1..Len(from)}
  IN [heap |-> [h EXCEPT !.edgeArr[dst] = [k \in 1..Len(from) |-> << dst, k >>],
                         !.edgeObj = [a \in kept \cup made |->
                                        IF a \in made
                                        THEN [h.edgeObj[from[a[2]]] EXCEPT !.addr = a]
                                        ELSE h.edgeObj[a]]],
      ref |-> dst]

(***************************************************************************)
(* The data handed to NodeGraph.  A data frame is [n, edges, stat]: n      *)
(* nodes with ids 1..n in rows 0..n-1, a list of edges << source, target   *)
(* >>, and the values of the field the legend sorts by, one per row.       *)
(* processNodes gives each node its id, its row and the number of incoming *)
(* edges, and no position.                                                 *)
(***************************************************************************)
SimCoords == {0, 1}
defaultNodeCountLimit == 7

NodeLimits == {Undefined} \cup {Def(l) : l \in 1..MaxLimit}

EdgePairs(n) == {p \in (1..n) \X (1..n) : p[1] # p[2]}
EdgeLists(n) ==
  {<< >>} \cup {<< p >> : p \in EdgePairs(n)}
    \cup {<< p, q >> : p \in EdgePairs(n), q \in EdgePairs(n)}

\* The frames the component is shown with: none, and two nodes joined by an
\* edge whose sort field rises or falls with the row.
ViewDataFrames ==
  {[n |-> 0, edges |-> << >>, stat |-> << >>],
   [n |-> 2, edges |-> << << 1, 2 >> >>, stat |-> << 1, 2 >>],
   [n |-> 2, edges |-> << << 2, 1 >> >>, stat |-> << 2, 1 >>]}

incomingCount(df, id) == Cardinality({k \in 1..Len(df.edges) : df.edges[k][2] = id})

rawNode(df, region, k) ==
  [addr |-> << region, k >>, id |-> k, dataFrameRowIndex |-> k - 1,
   incoming |-> incomingCount(df, k),
   x |-> Undefined, y |-> Undefined, fx |-> Undefined]

rawEdge(df, region, k) ==
  [addr |-> << region, k >>, id |-> k,
   source |-> << "id", df.edges[k][1] >>, target |-> << "id", df.edges[k][2] >>]

processNodes(h, df) ==
  LET keptN == {a \in DOMAIN h.nodeObj : a[1] # "raw"}
      madeN == {<< "raw", k >> : k \in 1..df.n}
      keptE == {a \in DOMAIN h.edgeObj : a[1] # "raw"}
      madeE == {<< "raw", k >> : k \in 1..Len(df.edges)}
  IN [nodeArr |-> [h.nodeArr EXCEPT !["raw"] = [k \in 1..df.n |-> << "raw", k >>]],
      edgeArr |-> [h.edgeArr EXCEPT !["raw"] = [k \in 1..Len(df.edges) |-> << "raw", k >>]],
      nodeObj |-> [a \in keptN \cup madeN |->
                     IF a \in madeN THEN rawNode(df, "raw", a[2]) ELSE h.nodeObj[a]],
      edgeObj |-> [a \in keptE \cup madeE |->
                     IF a \in madeE THEN rawEdge(df, "raw", a[2]) ELSE h.edgeObj[a]],
      field |-> [values |-> df.stat]]

emptyHeap ==
  [nodeArr |-> [r \in {"raw", "graph", "grid"} |-> << >>],
   edgeArr |-> [r \in {"raw", "graph", "grid"} |-> << >>],
   nodeObj |-> << >>,
   edgeObj |-> << >>,
   field |-> [values |-> << >>]]

\* What the simulation may leave in the nodes `nodes` (fx already set): one
\* position per node, the x of a node with fx set being fx.
simPositionsOf(node, coords) ==
  {[x |-> a, y |-> Num(b)] :
     a \in IF IsDef(node.fx) THEN {Val(node.fx)} ELSE {Num(c) : c \in coords},
     b \in coords}

RECURSIVE simOutcomes(_, _, _)
simOutcomes(nodes, coords, k) ==
  IF k > Len(nodes) THEN {<< >>}
  ELSE {<< p >> \o rest : p \in simPositionsOf(nodes[k], coords),
                          rest \in simOutcomes(nodes, coords, k + 1)}

seeded(h) ==
  IF Len(h.nodeArr["raw"]) = 0 THEN << >>
  ELSE fixRoots(initializePositions(derefNodes(h, "raw"), derefEdges(h, "raw")))

(***************************************************************************)
(* The effect of useLayout (layout.ts:52-72), statement by statement; each *)
(* \E binds the value one statement leaves behind.  h is the store with    *)
(* the processed data in it, sort is config.sort, sim the outcome of the   *)
(* simulation.                                                             *)
(***************************************************************************)
layoutEffectResetOnEmpty(h, sort, sim) ==
  /\ layoutRan' = (Len(h.nodeArr["raw"]) # 0)
  /\ \E n1 \in {copyNodes(h, "raw", "graph")} :
     \E e1 \in {copyEdges(n1.heap, "raw", "graph")} :
     \E dl \in {IF Len(h.nodeArr["raw"]) = 0 THEN [nodes |-> << >>, edges |-> << >>]
                ELSE defaultLayout(derefNodes(e1.heap, n1.ref),
                                   derefEdges(e1.heap, e1.ref), sim)} :
     \E h1 \in {storeEdges(storeNodes(e1.heap, n1.ref, dl.nodes), e1.ref, dl.edges)} :
     \E n2 \in {copyNodes(h1, "raw", "grid")} :
     \E e2 \in {copyEdges(n2.heap, "raw", "grid")} :
     \E gl \in {gridLayout(derefNodes(e2.heap, n2.ref), sort)} :
       /\ heap' = storeNodes(e2.heap, n2.ref, gl)
       /\ nodesGraph' = n1.ref
       /\ edgesGraph' = e1.ref
       /\ nodesGrid' = n2.ref
       /\ edgesGrid' = e2.ref

layoutEffect(h, sort, sim) ==
  IF Len(h.nodeArr["raw"]) = 0
  THEN /\ layoutRan' = FALSE
       /\ heap' = h
       /\ UNCHANGED << nodesGraph, edgesGraph, nodesGrid, edgesGrid >>
  ELSE /\ layoutRan' = TRUE
       /\ \E n1 \in {copyNodes(h, "raw", "graph")} :
          \E e1 \in {copyEdges(n1.heap, "raw", "graph")} :
          \E dl \in {defaultLayout(derefNodes(e1.heap, n1.ref),
                                   derefEdges(e1.heap, e1.ref), sim)} :
          \E h1 \in {storeEdges(storeNodes(e1.heap, n1.ref, dl.nodes), e1.ref, dl.edges)} :
          \E n2 \in {copyNodes(h1, "raw", "grid")} :
          \E e2 \in {copyEdges(n2.heap, "raw", "grid")} :
          \E gl \in {gridLayout(derefNodes(e2.heap, n2.ref), sort)} :
            /\ heap' = storeNodes(e2.heap, n2.ref, gl)
            /\ nodesGraph' = n1.ref
            /\ edgesGraph' = e1.ref
            /\ nodesGrid' = n2.ref
            /\ edgesGrid' = e2.ref

\* useEffect's dependency list [config.sort, rawNodes, rawEdges]: `changed`
\* tells, per value the render passes to useLayout, whether it is a different
\* object or value than in the previous render.
layoutDepsWholeConfig(changed) ==
  changed.sort \/ changed.gridLayout \/ changed.rawNodes \/ changed.rawEdges

layoutDepsChanged(changed) == changed.sort \/ changed.rawNodes \/ changed.rawEdges

noChange ==
  [sort |-> FALSE, gridLayout |-> FALSE, rawNodes |-> FALSE, rawEdges |-> FALSE,
   nodeCountLimit |-> FALSE, rootNodeId |-> FALSE]

\* useState: a mounted component's state value is the one last set.
useState(current, initial) == current

defaultConfig == [gridLayout |-> FALSE, sort |-> Undefined]

(***************************************************************************)
(* One render of NodeGraph after its props or state changed: the state     *)
(* hooks return their values, and useLayout's effect runs when one of its  *)
(* dependencies changed.  `st` holds the state values after the handler's  *)
(* set calls, `h` the store with the (possibly new) processed data.        *)
(***************************************************************************)
Render(st, h, changed) ==
  /\ config' = useState(st.config, defaultConfig)
  /\ nodeHover' = useState(st.nodeHover, Undefined)
  /\ edgeHover' = useState(st.edgeHover, Undefined)
  /\ focusedNodeId' = useState(st.focusedNodeId, Undefined)
  /\ IF layoutDepsChanged(changed)
     THEN /\ effectRan' = TRUE
          /\ \E sim \in simOutcomes(seeded(h), SimCoords, 1) :
               layoutEffect(h, config'.sort, sim)
     ELSE /\ effectRan' = FALSE
          /\ layoutRan' = FALSE
          /\ heap' = h
          /\ UNCHANGED << nodesGraph, edgesGraph, nodesGrid, edgesGrid >>

currentRecomputed ==
  [config |-> config, nodeHover |-> Undefined, edgeHover |-> Undefined,
   focusedNodeId |-> Undefined]

current ==
  [config |-> config, nodeHover |-> nodeHover, edgeHover |-> edgeHover,
   focusedNodeId |-> focusedNodeId]

initialState ==
  [config |-> defaultConfig, nodeHover |-> Undefined, edgeHover |-> Undefined,
   focusedNodeId |-> Undefined]

\* What useLayout hands to useNodeLimit, and so what is drawn.
shownNodes == derefNodes(heap, IF config.gridLayout THEN nodesGrid ELSE nodesGraph)
shownEdges == derefEdges(heap, IF config.gridLayout THEN edgesGrid ELSE edgesGraph)
shownNodeIds == {shownNodes[k].id : k \in 1..Len(shownNodes)}
shownEdgeIds == {shownEdges[k].id : k \in 1..Len(shownEdges)}

limitOf(nodeLimit) == IF IsDef(nodeLimit) THEN Val(nodeLimit) ELSE defaultNodeCountLimit

(***************************************************************************)
(* The component's life and its handlers.                                  *)
(***************************************************************************)
MountFrom(frames) ==
  /\ ~mounted
  /\ mounted' = TRUE
  /\ \E df \in frames, nodeLimit \in NodeLimits :
       /\ nodeCountLimit' = limitOf(nodeLimit)
       /\ Render(initialState, processNodes(emptyHeap, df),
                 [noChange EXCEPT !.sort = TRUE, !.rawNodes = TRUE, !.rawEdges = TRUE])

Unmount ==
  /\ mounted
  /\ mounted' = FALSE
  /\ nodeCountLimit' = defaultNodeCountLimit
  /\ config' = defaultConfig
  /\ nodeHover' = Undefined
  /\ edgeHover' = Undefined
  /\ focusedNodeId' = Undefined
  /\ heap' = emptyHeap
  /\ nodesGraph' = "graph"
  /\ edgesGraph' = "graph"
  /\ nodesGrid' = "grid"
  /\ edgesGrid' = "grid"
  /\ effectRan' = FALSE
  /\ layoutRan' = FALSE

\* New dataFrames: useMemo recomputes processed, so rawNodes and rawEdges
\* are new arrays.
SetDataFramesFrom(frames) ==
  /\ mounted
  /\ \E df \in frames :
       Render(current, processNodes(heap, df),
              [noChange EXCEPT !.rawNodes = TRUE, !.rawEdges = TRUE])
  /\ UNCHANGED << mounted, nodeCountLimit >>

SetNodeLimit ==
  /\ mounted
  /\ \E nodeLimit \in NodeLimits :
       /\ limitOf(nodeLimit) # nodeCountLimit
       /\ nodeCountLimit' = limitOf(nodeLimit)
  /\ Render(current, heap, [noChange EXCEPT !.nodeCountLimit = TRUE])
  /\ UNCHANGED mounted

NodeMouseEnter ==
  /\ mounted
  /\ \E id \in shownNodeIds :
       Render([current EXCEPT !.nodeHover = Def(id)], heap, noChange)
  /\ UNCHANGED << mounted, nodeCountLimit >>

NodeMouseLeave ==
  /\ mounted
  /\ shownNodeIds # {}
  /\ Render([current EXCEPT !.nodeHover = Undefined], heap, noChange)
  /\ UNCHANGED << mounted, nodeCountLimit >>

EdgeMouseEnter ==
  /\ mounted
  /\ ~config.gridLayout
  /\ \E id \in shownEdgeIds :
       Render([current EXCEPT !.edgeHover = Def(id)], heap, noChange)
  /\ UNCHANGED << mounted, nodeCountLimit >>

EdgeMouseLeave ==
  /\ mounted
  /\ ~config.gridLayout
  /\ shownEdgeIds # {}
  /\ Render([current EXCEPT !.edgeHover = Undefined], heap, noChange)
  /\ UNCHANGED << mounted, nodeCountLimit >>

\* <Markers onClick={(e, m) => setFocusedNodeId(m.node.id)} />
MarkerClick ==
  /\ mounted
  /\ \E id \in shownNodeIds :
       Render([current EXCEPT !.focusedNodeId = Def(id)], heap,
              [noChange EXCEPT !.rootNodeId = (Def(id) # focusedNodeId)])
  /\ UNCHANGED << mounted, nodeCountLimit >>

\* The context menu entry "Show in Graph layout", offered in grid layout.
ShowInGraphLayout ==
  /\ mounted
  /\ config.gridLayout
  /\ \E id \in shownNodeIds :
       Render([current EXCEPT !.focusedNodeId = Def(id),
                              !.config = [config EXCEPT !.gridLayout = FALSE]],
              heap,
              [noChange EXCEPT !.rootNodeId = (Def(id) # focusedNodeId), !.gridLayout = TRUE])
  /\ UNCHANGED << mounted, nodeCountLimit >>

\* <Legend onSort={(sort) => setConfig({ ...config, sort: sort })} />: the
\* legend, drawn when nodes are shown, hands over a new sort object over the
\* sort field of the frame.
OnSort ==
  /\ mounted
  /\ Len(shownNodes) > 0
  /\ \E ascending \in BOOLEAN :
       Render([current EXCEPT !.config =
                 [config EXCEPT !.sort = Def([field |-> heap.field,
                                              ascending |-> ascending])]],
              heap, [noChange EXCEPT !.sort = TRUE])
  /\ UNCHANGED << mounted, nodeCountLimit >>

\* <ViewControls onConfigChange={...} />: cfg is the config with the layout
\* switched, its other properties (sort among them) spread from config.
OnConfigChange ==
  /\ mounted
  /\ \E grid \in BOOLEAN :
       LET cfg == [config EXCEPT !.gridLayout = grid]
       IN Render([current EXCEPT !.config = cfg,
                                 !.focusedNodeId = IF cfg.gridLayout # config.gridLayout
                                                   THEN Undefined ELSE focusedNodeId],
                 heap,
                 [noChange EXCEPT !.gridLayout = (cfg.gridLayout # config.gridLayout),
                                  !.rootNodeId = (cfg.gridLayout # config.gridLayout
                                                    /\ IsDef(focusedNodeId))])
  /\ UNCHANGED << mounted, nodeCountLimit >>

(***************************************************************************)
(* The dashboard change tracker.  A dashboard is a record of its title,    *)
(* time, refresh, schemaVersion, iteration and panels; a panel has an id,  *)
(* a type, and for a row whether it is collapsed and the panels it holds   *)
(* while collapsed.  JavaScript's true, false and undefined are Def(TRUE), *)
(* Def(FALSE) and Undefined.                                               *)
(***************************************************************************)
MaxRepeats == 1

Titles == {"No Title", "google"}
Times == {[from |-> "now-6h"], [from |-> "1h"]}
SchemaVersions == {27, 10}
Iterations == {1, 2}
LegendSorts == {Undefined, Def("avg")}

PanelModel(id, type) ==
  [id |-> id, type |-> type, collapsed |-> FALSE, panels |-> << >>,
   legend |-> Undefined, repeatPanelId |-> Undefined]

getDefaultDashboardModel ==
  [title |-> "No Title",
   time |-> [from |-> "now-6h"],
   refresh |-> FALSE,
   schemaVersion |-> 27,
   iteration |-> Undefined,
   panels |->
     << [PanelModel(Def(1), Def("graph")) EXCEPT
           !.legend = Def([sortDesc |-> Def(FALSE), sort |-> Undefined])],
        [PanelModel(Def(2), Def("row")) EXCEPT
           !.collapsed = TRUE,
           !.panels = << PanelModel(Def(3), Def("graph")),
                         PanelModel(Def(4), Def("graph")) >>],
        PanelModel(Def(5), Def("row")) >>]

getSaveModelClone(d) ==
  [title |-> d.title, time |-> d.time, refresh |-> d.refresh,
   schemaVersion |-> d.schemaVersion, iteration |-> d.iteration,
   panels |-> [k \in 1..Len(d.panels) |-> d.panels[k]]]

isRow(panel) == panel.type = Def("row")

RECURSIVE rowEnd(_, _)
rowEnd(panels, k) ==
  IF k > Len(panels) \/ isRow(panels[k]) THEN k - 1 ELSE rowEnd(panels, k + 1)

toggleRow(panels, idx) ==
  LET row == panels[idx]
  IN IF row.collapsed
     THEN SubSeq(panels, 1, idx - 1)
            \o << [row EXCEPT !.collapsed = FALSE, !.panels = << >>] >>
            \o row.panels
            \o SubSeq(panels, idx + 1, Len(panels))
     ELSE LET last == rowEnd(panels, idx + 1)
          IN SubSeq(panels, 1, idx - 1)
               \o << [row EXCEPT !.collapsed = TRUE,
                                 !.panels = SubSeq(panels, idx + 1, last)] >>
               \o SubSeq(panels, last + 1, Len(panels))

RECURSIVE expandRowsFrom(_, _)
expandRowsFrom(panels, k) ==
  IF k > Len(panels) THEN panels
  ELSE IF isRow(panels[k]) /\ panels[k].collapsed
       THEN expandRowsFrom(toggleRow(panels, k), k + 1)
       ELSE expandRowsFrom(panels, k + 1)

expandRows(panels) == expandRowsFrom(panels, 1)

cleanLegend(panel) ==
  IF IsDef(panel.legend)
  THEN [panel EXCEPT !.legend = Def([sortDesc |-> Undefined, sort |-> Undefined])]
  ELSE panel

cleanPanels(panels) ==
  LET kept == SelectSeq(panels, LAMBDA panel : ~IsDef(panel.repeatPanelId))
  IN [k \in 1..Len(kept) |-> cleanLegend(kept[k])]

cleanKeepingIteration(dashData) ==
  [dashData EXCEPT !.time = 0, !.refresh = 0, !.schemaVersion = 0,
                   !.panels = cleanPanels(expandRows(dashData.panels))]

cleanDashboardFromIgnoredChanges(dashData) ==
  [dashData EXCEPT !.time = 0, !.refresh = 0, !.schemaVersion = 0,
                   !.iteration = Undefined,
                   !.panels = cleanPanels(expandRows(dashData.panels))]

hasChangesInPanelsOnly(cur, orig) ==
  cleanDashboardFromIgnoredChanges(getSaveModelClone(cur)).panels
    # cleanDashboardFromIgnoredChanges(orig).panels

hasChanges(cur, orig) ==
  cleanDashboardFromIgnoredChanges(getSaveModelClone(cur))
    # cleanDashboardFromIgnoredChanges(orig)

truthy(v) == IsDef(v) /\ Val(v)
not(v) == Def(~truthy(v))
or(a, b) == IF truthy(a) THEN a ELSE b

ignoreChangesForViewers(cur, orig, contextSrv) ==
  IF ~IsDef(orig) THEN Def(TRUE)
  ELSE IF ~contextSrv.isSignedIn THEN Def(TRUE)
  ELSE IF ~IsDef(cur) \/ ~IsDef(Val(cur).meta) THEN Def(TRUE)
  ELSE IF ~contextSrv.isEditor THEN Def(TRUE)
  ELSE LET meta == Val(Val(cur).meta)
       IN or(or(not(meta.canSave), meta.fromScript), meta.fromFile)

ignoreChanges(cur, orig, contextSrv) ==
  IF ~IsDef(orig) THEN Def(TRUE)
  ELSE IF ~contextSrv.isSignedIn THEN Def(TRUE)
  ELSE IF ~IsDef(cur) \/ ~IsDef(Val(cur).meta) THEN Def(TRUE)
  ELSE LET meta == Val(Val(cur).meta)
       IN IF ~contextSrv.isEditor /\ ~truthy(meta.canSave) THEN Def(TRUE)
          ELSE or(or(not(meta.canSave), meta.fromScript), meta.fromFile)

VARIABLES dash, original

trackerVars == << dash, original >>

trackerInit ==
  /\ dash = getDefaultDashboardModel
  /\ original = getSaveModelClone(dash)

repeats(panels) ==
  Cardinality({k \in 1..Len(panels) : IsDef(panels[k].repeatPanelId)})
    + Cardinality({<< k, i >> \in (1..Len(panels)) \X (1..(2 + MaxRepeats)) :
                     /\ i <= Len(panels[k].panels)
                     /\ IsDef(panels[k].panels[i].repeatPanelId)})

SetTitle ==
  /\ \E title \in Titles \ {dash.title} : dash' = [dash EXCEPT !.title = title]
  /\ UNCHANGED original

SetTime ==
  /\ \E time \in Times \ {dash.time} : dash' = [dash EXCEPT !.time = time]
  /\ UNCHANGED original

SetRefresh ==
  /\ dash' = [dash EXCEPT !.refresh = ~dash.refresh]
  /\ UNCHANGED original

SetSchemaVersion ==
  /\ \E version \in SchemaVersions \ {dash.schemaVersion} :
       dash' = [dash EXCEPT !.schemaVersion = version]
  /\ UNCHANGED original

SetIteration ==
  /\ \E iteration \in Iterations :
       /\ dash.iteration # Def(iteration)
       /\ dash' = [dash EXCEPT !.iteration = Def(iteration)]
  /\ UNCHANGED original

ToggleRow ==
  /\ \E idx \in 1..Len(dash.panels) :
       /\ isRow(dash.panels[idx])
       /\ dash' = [dash EXCEPT !.panels = toggleRow(dash.panels, idx)]
  /\ UNCHANGED original

SetLegendSort ==
  /\ \E idx \in 1..Len(dash.panels) : \E sortDesc \in BOOLEAN : \E sort \in LegendSorts :
       /\ IsDef(dash.panels[idx].legend)
       /\ dash' = [dash EXCEPT !.panels[idx].legend =
                                  Def([sortDesc |-> Def(sortDesc), sort |-> sort])]
  /\ UNCHANGED original

PushRepeatedPanel ==
  /\ repeats(dash.panels) < MaxRepeats
  /\ dash' = [dash EXCEPT !.panels =
                Append(dash.panels,
                       [PanelModel(Undefined, Undefined) EXCEPT !.repeatPanelId = Def(10)])]
  /\ UNCHANGED original

viewInit ==
  /\ mounted = FALSE
  /\ nodeCountLimit = defaultNodeCountLimit
  /\ config = defaultConfig
  /\ nodeHover = Undefined
  /\ edgeHover = Undefined
  /\ focusedNodeId = Undefined
  /\ heap = emptyHeap
  /\ nodesGraph = "graph"
  /\ edgesGraph = "graph"
  /\ nodesGrid = "grid"
  /\ edgesGrid = "grid"
  /\ effectRan = FALSE
  /\ layoutRan = FALSE

fnVars == << fn, fnArgs, fnOut >>

fnIdle ==
  /\ fn = "none"
  /\ fnArgs = << >>
  /\ fnOut = << >>

idleVars == << fnVars, trackerVars >>

vars == << viewVars, fnVars, trackerVars >>

(***************************************************************************)
(* Spec: NodeGraph with useLayout, from mount to unmount, under every      *)
(* handler that reaches useLayout's arguments.                             *)
(***************************************************************************)
Init == viewInit /\ fnIdle /\ trackerInit

Mount == MountFrom(ViewDataFrames) /\ UNCHANGED idleVars
SetDataFrames == SetDataFramesFrom(ViewDataFrames) /\ UNCHANGED idleVars

Next ==
  \/ Mount
  \/ Unmount /\ UNCHANGED idleVars
  \/ SetDataFrames
  \/ SetNodeLimit /\ UNCHANGED idleVars
  \/ MarkerClick /\ UNCHANGED idleVars
  \/ ShowInGraphLayout /\ UNCHANGED idleVars
  \/ OnSort /\ UNCHANGED idleVars
  \/ OnConfigChange /\ UNCHANGED idleVars

Spec == Init /\ [][Next]_vars

(***************************************************************************)
(* SpecFn: the layout functions on their own.  Init draws the arguments of *)
(* one call, and the one step applies the function to them.                *)
(*   points: a list of up to MaxPoints positioned nodes, for graphBounds   *)
(*           and centerNodes;                                              *)
(*   grid:   up to MaxGrid nodes in row order and config.sort, for         *)
(*           gridLayout;                                                   *)
(*   frame:  the nodes and edges of a frame of 1..MaxNodes nodes, for      *)
(*           defaultLayout.                                                *)
(***************************************************************************)
PointYs == {0, 1}
PointPositions ==
  {[x |-> Num(a), y |-> Num(b)] : a \in (0 - MaxCoord)..MaxCoord, b \in PointYs}

noEdges(n) == [n |-> n, edges |-> << >>, stat |-> << >>]

pointNodes(ps) ==
  [k \in 1..Len(ps) |->
     [rawNode(noEdges(Len(ps)), "in", k) EXCEPT !.x = Def(ps[k].x), !.y = Def(ps[k].y)]]

frameNodes(df) == [k \in 1..df.n |-> rawNode(df, "in", k)]
frameEdges(df) == [k \in 1..Len(df.edges) |-> rawEdge(df, "in", k)]

SortInputs(n) ==
  {Undefined} \cup {Def([field |-> [values |-> v], ascending |-> a]) :
                      v \in [1..n -> 1..MaxVal], a \in BOOLEAN}

DataFrames ==
  UNION {{[n |-> n, edges |-> e, stat |-> << >>] : e \in EdgeLists(n)} : n \in 1..MaxNodes}

Flags == {Undefined, Def(TRUE), Def(FALSE)}
Metas == {Undefined} \cup {Def(m) : m \in [canSave : Flags, fromScript : Flags, fromFile : Flags]}
CurrentDashboards == {Undefined} \cup {Def([meta |-> m]) : m \in Metas}

fnInit ==
  /\ fn = "args"
  /\ fnOut = << >>
  /\ \/ \E n \in 0..MaxPoints : \E ps \in [1..n -> PointPositions] :
          fnArgs = [kind |-> "points", nodes |-> pointNodes(ps)]
     \/ \E n \in 0..MaxGrid : \E sort \in SortInputs(n) :
          fnArgs = [kind |-> "grid", nodes |-> frameNodes(noEdges(n)), sort |-> sort]
     \/ \E df \in DataFrames :
          fnArgs = [kind |-> "frame", nodes |-> frameNodes(df), edges |-> frameEdges(df)]
     \/ \E cur \in CurrentDashboards : \E orig \in {Undefined, Def(original)} :
        \E contextSrv \in [isSignedIn : BOOLEAN, isEditor : BOOLEAN] :
          fnArgs = [kind |-> "dashboards", current |-> cur, original |-> orig,
                    contextSrv |-> contextSrv]

CallGraphBounds ==
  /\ fn = "args"
  /\ fnArgs.kind = "points"
  /\ fn' = "graphBounds"
  /\ fnOut' = graphBounds(fnArgs.nodes)
  /\ UNCHANGED << fnArgs, viewVars, trackerVars >>

CallCenterNodes ==
  /\ fn = "args"
  /\ fnArgs.kind = "points"
  /\ fn' = "centerNodes"
  /\ fnOut' = centerNodes(fnArgs.nodes)
  /\ UNCHANGED << fnArgs, viewVars, trackerVars >>

CallGridLayout ==
  /\ fn = "args"
  /\ fnArgs.kind = "grid"
  /\ fn' = "gridLayout"
  /\ fnOut' = gridLayout(fnArgs.nodes, fnArgs.sort)
  /\ UNCHANGED << fnArgs, viewVars, trackerVars >>

CallDefaultLayout ==
  /\ fn = "args"
  /\ fnArgs.kind = "frame"
  /\ fn' = "defaultLayout"
  /\ \E sim \in simOutcomes(fixRoots(initializePositions(fnArgs.nodes, fnArgs.edges)),
                            SimCoords, 1) :
       fnOut' = defaultLayout(fnArgs.nodes, fnArgs.edges, sim)
  /\ UNCHANGED << fnArgs, viewVars, trackerVars >>

CallIgnoreChanges ==
  /\ fn = "args"
  /\ fnArgs.kind = "dashboards"
  /\ fn' = "ignoreChanges"
  /\ fnOut' = ignoreChanges(fnArgs.current, fnArgs.original, fnArgs.contextSrv)
  /\ UNCHANGED << fnArgs, viewVars, trackerVars >>

NextFn ==
  \/ CallGraphBounds
  \/ CallCenterNodes
  \/ CallGridLayout
  \/ CallDefaultLayout
  \/ CallIgnoreChanges

InitFn == viewInit /\ trackerInit /\ fnInit

SpecFn == InitFn /\ [][NextFn]_vars

(***************************************************************************)
(* SpecTracker: a dashboard and the save model taken from it when it was   *)
(* loaded, under the edits the change tracker is asked about.              *)
(***************************************************************************)
NextTracker ==
  \/ SetTitle /\ UNCHANGED << viewVars, fnVars >>
  \/ SetTime /\ UNCHANGED << viewVars, fnVars >>
  \/ SetRefresh /\ UNCHANGED << viewVars, fnVars >>
  \/ SetSchemaVersion /\ UNCHANGED << viewVars, fnVars >>
  \/ SetIteration /\ UNCHANGED << viewVars, fnVars >>
  \/ ToggleRow /\ UNCHANGED << viewVars, fnVars >>
  \/ SetLegendSort /\ UNCHANGED << viewVars, fnVars >>
  \/ PushRepeatedPanel /\ UNCHANGED << viewVars, fnVars >>

SpecTracker == Init /\ [][NextTracker]_vars

(***************************************************************************)
(* SpecView: the same component with its hover handlers, shown with one    *)
(* frame for as long as it is mounted.                                     *)
(***************************************************************************)
NextView ==
  \/ Mount
  \/ Unmount /\ UNCHANGED idleVars
  \/ SetNodeLimit /\ UNCHANGED idleVars
  \/ NodeMouseEnter /\ UNCHANGED idleVars
  \/ NodeMouseLeave /\ UNCHANGED idleVars
  \/ EdgeMouseEnter /\ UNCHANGED idleVars
  \/ EdgeMouseLeave /\ UNCHANGED idleVars
  \/ MarkerClick /\ UNCHANGED idleVars
  \/ ShowInGraphLayout /\ UNCHANGED idleVars
  \/ OnConfigChange /\ UNCHANGED idleVars

SpecView == Init /\ [][NextView]_vars

(***************************************************************************)
(* Claims about useLayout and NodeGraph.                                   *)
(***************************************************************************)
layoutStates(h, ng, eg, nd, ed) ==
  << derefNodes(h, ng), derefEdges(h, eg), derefNodes(h, nd), derefEdges(h, ed) >>

rawCount == Len(heap.nodeArr["raw"])

\* C1: when the layout effect runs with an empty rawNodes it runs neither
\* defaultLayout nor gridLayout and leaves nodesGraph, edgesGraph, nodesGrid
\* and edgesGrid, and the objects they hold, as they were.
C1_EmptyNodesDoNothing ==
  [][(effectRan' /\ Len(heap'.nodeArr["raw"]) = 0)
       => /\ ~layoutRan'
          /\ << nodesGraph, edgesGraph, nodesGrid, edgesGrid >>'
               = << nodesGraph, edgesGraph, nodesGrid, edgesGrid >>
          /\ layoutStates(heap', nodesGraph', edgesGraph', nodesGrid', edgesGrid')
               = layoutStates(heap, nodesGraph, edgesGraph, nodesGrid, edgesGrid)]_vars

\* C1 witness: the effect has run on an empty rawNodes while an earlier
\* layout of two nodes is still stored.
C1_Witness ==
  /\ mounted
  /\ effectRan
  /\ rawCount = 0
  /\ Len(derefNodes(heap, nodesGraph)) = 2
  /\ Len(derefNodes(heap, nodesGrid)) = 2

\* C2: rawNodes and rawEdges are never modified: they keep their order, no
\* raw node has x, y or fx, every raw edge has its source and target as ids,
\* and the layout states hold other arrays of other objects.
C2_InputsNotModified ==
  mounted =>
    /\ \A k \in 1..rawCount :
         LET n == heap.nodeObj[heap.nodeArr["raw"][k]]
         IN /\ heap.nodeArr["raw"][k] = << "raw", k >>
            /\ n.id = k
            /\ n.x = Undefined
            /\ n.y = Undefined
            /\ n.fx = Undefined
    /\ \A k \in 1..Len(heap.edgeArr["raw"]) :
         LET e == heap.edgeObj[heap.edgeArr["raw"][k]]
         IN /\ heap.edgeArr["raw"][k] = << "raw", k >>
            /\ e.id = k
            /\ e.source[1] = "id"
            /\ e.target[1] = "id"
    /\ {nodesGraph, nodesGrid, edgesGraph, edgesGrid} \cap {"raw"} = {}
    /\ \A r \in {"graph", "grid"} :
         /\ \A k \in 1..Len(heap.nodeArr[r]) : heap.nodeArr[r][k][1] # "raw"
         /\ \A k \in 1..Len(heap.edgeArr[r]) : heap.edgeArr[r][k][1] # "raw"

\* C2 witness: the layouts have run on two nodes and an edge: the grid copy
\* is in another order than rawNodes, the graph copies have positions and a
\* fixed x, and the graph copy of the edge points at node objects.
C2_Witness ==
  /\ mounted
  /\ layoutRan
  /\ rawCount = 2
  /\ derefNodes(heap, nodesGrid)[1].id = 2
  /\ \A k \in 1..2 : /\ IsDef(derefNodes(heap, nodesGraph)[k].x)
                     /\ IsDef(derefNodes(heap, nodesGraph)[k].fx)
                     /\ IsDef(derefNodes(heap, nodesGrid)[k].y)
  /\ derefEdges(heap, edgesGraph)[1].source[1] = "node"

\* C3: a step of the mounted component that changes nodeCountLimit, the
\* focused node id or config.gridLayout does not rerun the layout effect and
\* leaves every stored graph-layout and grid-layout position as it was.
C3_HidingKeepsLayout ==
  [][(/\ mounted /\ mounted'
      /\ \/ nodeCountLimit' # nodeCountLimit
         \/ focusedNodeId' # focusedNodeId
         \/ config'.gridLayout # config.gridLayout)
       => /\ ~effectRan'
          /\ config'.sort = config.sort
          /\ layoutStates(heap', nodesGraph', edgesGraph', nodesGrid', edgesGrid')
               = layoutStates(heap, nodesGraph, edgesGraph, nodesGrid, edgesGrid)]_vars

\* C3 witness: with two nodes laid out, the limit was changed, the grid
\* layout switched on and a node focused, the last step not running the
\* effect.
C3_Witness ==
  /\ mounted
  /\ ~effectRan
  /\ nodeCountLimit # defaultNodeCountLimit
  /\ config.gridLayout
  /\ IsDef(focusedNodeId)
  /\ Len(derefNodes(heap, nodesGraph)) = 2
  /\ IsDef(derefNodes(heap, nodesGrid)[2].x)

\* C6 as stated: hover id and focused node id are recomputed from scratch on
\* every render, so a value other than the initial one never survives a step
\* of the mounted component.
C6_RecomputedEveryRender ==
  [][(mounted /\ mounted')
       => /\ nodeHover' = nodeHover => nodeHover' = Undefined
          /\ edgeHover' = edgeHover => edgeHover' = Undefined
          /\ focusedNodeId' = focusedNodeId => focusedNodeId' = Undefined]_vars

\* C6 amended: hover id and focused node id are component state.  They are
\* undefined when the component mounts and again after it unmounts, and a
\* render caused by another event returns the value last set: a step that
\* changes one of node hover, edge hover, focus/config and node limit leaves
\* the others as they were.
C6_StateKeptAcrossRenders ==
  [][/\ (~mounted /\ mounted') \/ ~mounted'
          => nodeHover' = Undefined /\ edgeHover' = Undefined /\ focusedNodeId' = Undefined
     /\ (mounted /\ mounted')
          => /\ nodeHover' # nodeHover
                  => edgeHover' = edgeHover /\ focusedNodeId' = focusedNodeId
             /\ edgeHover' # edgeHover
                  => nodeHover' = nodeHover /\ focusedNodeId' = focusedNodeId
             /\ (focusedNodeId' # focusedNodeId \/ config' # config)
                  => nodeHover' = nodeHover /\ edgeHover' = edgeHover
             /\ nodeCountLimit' # nodeCountLimit
                  => /\ nodeHover' = nodeHover
                     /\ edgeHover' = edgeHover
                     /\ focusedNodeId' = focusedNodeId]_vars

\* C6 witness: a node hover, an edge hover and a focus set by three earlier
\* events are all still there after a render for a new node limit.
C6_Witness ==
  /\ mounted
  /\ IsDef(nodeHover)
  /\ IsDef(edgeHover)
  /\ IsDef(focusedNodeId)
  /\ nodeCountLimit # defaultNodeCountLimit

(***************************************************************************)
(* Claims about the layout functions.                                      *)
(***************************************************************************)
xsOf(nodes) == {Val(nodes[k].x) : k \in 1..Len(nodes)}
ysOf(nodes) == {Val(nodes[k].y) : k \in 1..Len(nodes)}
least(S) == CHOOSE v \in S : \A w \in S : v <= w
greatest(S) == CHOOSE v \in S : \A w \in S : v >= w

centred(nodes) ==
  LET b == graphBounds(nodes)
  IN b.left + b.right = 0 /\ b.top + b.bottom = 0

C5_BoundsAreExtent ==
  fn = "graphBounds" =>
    IF Len(fnArgs.nodes) = 0
    THEN fnOut = [top |-> 0, right |-> 0, bottom |-> 0, left |-> 0,
                  center |-> [x |-> 0, y |-> 0]]
    ELSE /\ fnOut.left = least(xsOf(fnArgs.nodes))
         /\ fnOut.right = greatest(xsOf(fnArgs.nodes))
         /\ fnOut.top = least(ysOf(fnArgs.nodes))
         /\ fnOut.bottom = greatest(ysOf(fnArgs.nodes))
         /\ 2 * fnOut.center.x = fnOut.left + fnOut.right
         /\ 2 * fnOut.center.y = fnOut.top + fnOut.bottom
         /\ fnOut.left <= fnOut.center.x /\ fnOut.center.x <= fnOut.right
         /\ fnOut.top <= fnOut.center.y /\ fnOut.center.y <= fnOut.bottom

\* C5 witness: bounds of three nodes of which the first is at neither end,
\* with the centre strictly inside and off the origin.
C5_Witness ==
  /\ fn = "graphBounds"
  /\ Len(fnArgs.nodes) = 3
  /\ fnOut.left < Val(fnArgs.nodes[1].x)
  /\ Val(fnArgs.nodes[1].x) < fnOut.right
  /\ fnOut.left < fnOut.center.x
  /\ fnOut.center.x < 0
  /\ fnOut.top < fnOut.center.y

sortValue(node) == fnArgs.sort[1].field.values[node.dataFrameRowIndex + 1]

\* C10: gridLayout with a sort places the nodes in ascending order of the
\* sort field when sort.ascending is true and in descending order when it is
\* false.
C10_AscendingIsAscending ==
  (fn = "gridLayout" /\ IsDef(fnArgs.sort)) =>
    \A i, j \in 1..Len(fnOut) :
      i < j => IF fnArgs.sort[1].ascending
               THEN sortValue(fnOut[i]) <= sortValue(fnOut[j])
               ELSE sortValue(fnOut[i]) >= sortValue(fnOut[j])

C8_TitleChangeDetected ==
  dash.title # original.title => hasChanges(dash, original)

\* C8 witness: the title differs, and so do ignored fields and the rows.
C8_Witness ==
  /\ dash.title # original.title
  /\ dash.time # original.time
  /\ IsDef(dash.iteration)
  /\ dash.panels # original.panels
  /\ hasChanges(dash, original)

metaOf(args) ==
  IF IsDef(args.current) /\ IsDef(Val(args.current).meta)
  THEN Val(Val(args.current).meta)
  ELSE [canSave |-> Undefined, fromScript |-> Undefined, fromFile |-> Undefined]

hasMeta(args) == IsDef(args.current) /\ IsDef(Val(args.current).meta)

\* C9: ignoreChanges returns true without an original, without a current
\* dashboard, without meta, for a user not signed in, with fromScript or
\* fromFile true, and for a non-editor without canSave; it returns undefined
\* for a signed-in user with canSave true and neither fromScript nor
\* fromFile set, editor or not.
C9_IgnoreChangesTable ==
  fn = "ignoreChanges" =>
    /\ ( \/ ~IsDef(fnArgs.original)
         \/ ~IsDef(fnArgs.current)
         \/ ~hasMeta(fnArgs)
         \/ ~fnArgs.contextSrv.isSignedIn
         \/ metaOf(fnArgs).fromScript = Def(TRUE)
         \/ metaOf(fnArgs).fromFile = Def(TRUE)
         \/ (~fnArgs.contextSrv.isEditor /\ metaOf(fnArgs).canSave = Def(FALSE)) )
       => fnOut = Def(TRUE)
    /\ ( /\ IsDef(fnArgs.original)
         /\ hasMeta(fnArgs)
         /\ fnArgs.contextSrv.isSignedIn
         /\ metaOf(fnArgs).canSave = Def(TRUE)
         /\ metaOf(fnArgs).fromScript = Undefined
         /\ metaOf(fnArgs).fromFile = Undefined )
       => fnOut = Undefined

\* C9 witness: a signed-in viewer with canSave and nothing else set got
\* undefined.
C9_Witness ==
  /\ fn = "ignoreChanges"
  /\ fnArgs.contextSrv.isSignedIn
  /\ ~fnArgs.contextSrv.isEditor
  /\ IsDef(fnArgs.original)
  /\ hasMeta(fnArgs)
  /\ metaOf(fnArgs).canSave = Def(TRUE)
  /\ metaOf(fnArgs).fromScript = Undefined
  /\ fnOut = Undefined

(***************************************************************************)
(* Claims about the grid positions.                                        *)
(***************************************************************************)
\* C11: gridLayout returns the nodes it was given, and the node at index i
\* (from 0, after the sort) is at x = -180 + (i mod 4) * 120 and
\* y = -60 + floor(i / 4) * 140; so no row holds more than 4 nodes and no two
\* nodes share a position.
C11_GridPositions ==
  fn = "gridLayout" =>
    /\ Len(fnOut) = Len(fnArgs.nodes)
    /\ {fnOut[k].id : k \in 1..Len(fnOut)}
         = {fnArgs.nodes[k].id : k \in 1..Len(fnArgs.nodes)}
    /\ \A k \in 1..Len(fnOut) :
         /\ fnOut[k].x = Def(Num(-180 + ((k - 1) % 4) * 120))
         /\ fnOut[k].y = Def(Num(-60 + ((k - 1) \div 4) * 140))
    /\ \A k \in 1..Len(fnOut) :
         Cardinality({j \in 1..Len(fnOut) : fnOut[j].y = fnOut[k].y}) <= 4
    /\ \A j, k \in 1..Len(fnOut) :
         (fnOut[j].x = fnOut[k].x /\ fnOut[j].y = fnOut[k].y) => j = k

\* C11 witness: five nodes that the sort has reordered; the fifth starts the
\* second row, below the first node of the first row.
C11_Witness ==
  /\ fn = "gridLayout"
  /\ IsDef(fnArgs.sort)
  /\ Len(fnOut) = 5
  /\ fnOut[1].id # fnArgs.nodes[1].id
  /\ fnOut[4].x = Def(Num(180))
  /\ fnOut[5].x = Def(Num(-180))
  /\ fnOut[5].y = Def(Num(80))

=============================================================================
